---- MODULE Spec2Model ----
(***************************************************************************)
(* Model of the Cloudflare R2 upload example: the command line entry point *)
(* (r2_upload_example.py: main, upload_directory, upload_single_file) and  *)
(* the uploader it drives (src/r2_uploader.py: R2Uploader.upload_file,     *)
(* upload_file_async, create_r2_uploader_from_config, upload_video_to_r2). *)
(*                                                                         *)
(* Python strings are sequences of one-character strings, so that split,   *)
(* lstrip, rstrip, replace, lower, Path.parts and Path.suffix are computed *)
(* character by character, as the interpreter computes them.               *)
(***************************************************************************)
EXTENDS Integers, Sequences, FiniteSets, TLC

(***************************************************************************)
(* Bounds of the model.                                                    *)
(***************************************************************************)
\* the longest listing os.walk yields
MaxFiles == 2
\* how many times another process removes a local file during the run
MaxEnvRemovals == 1

(***************************************************************************)
(* Python str operations.                                                  *)
(***************************************************************************)
SLASH == "/"
BSLASH == "\\"

\* str.replace(old, new) for one-character old and new
Replace(s, old, new) == [i \in 1..Len(s) |-> IF s[i] = old THEN new ELSE s[i]]

\* the characters str.lower changes, among those the model's strings use
LowerChar(c) ==
  CASE c = "M" -> "m"
    [] c = "K" -> "k"
    [] c = "V" -> "v"
    [] c = "P" -> "p"
    [] c = "T" -> "t"
    [] c = "X" -> "x"
    [] OTHER -> c

\* str.lower
Lower(s) == [i \in 1..Len(s) |-> LowerChar(s[i])]

\* str.lstrip(chars)
LStrip(s, chars) ==
  LET keep == {i \in 1..Len(s) : s[i] \notin chars}
  IN  IF keep = {} THEN <<>>
      ELSE SubSeq(s, CHOOSE i \in keep : \A j \in keep : i <= j, Len(s))

\* str.rstrip(chars)
RStrip(s, chars) ==
  LET keep == {i \in 1..Len(s) : s[i] \notin chars}
  IN  IF keep = {} THEN <<>>
      ELSE SubSeq(s, 1, CHOOSE i \in keep : \A j \in keep : i >= j)

\* str.strip() with no argument strips white space
Strip(s) == RStrip(LStrip(s, {" "}), {" "})

\* s[i:i+len(sub)] == sub
MatchAt(s, sub, i) ==
  /\ i + Len(sub) - 1 <= Len(s)
  /\ \A k \in 1..Len(sub) : s[i + k - 1] = sub[k]

\* str.find(sub), 1-based; 0 when sub does not occur
Find(s, sub) ==
  LET hits == {i \in 1..Len(s) : MatchAt(s, sub, i)}
  IN  IF hits = {} THEN 0 ELSE CHOOSE i \in hits : \A j \in hits : i <= j

\* str.rfind(sub), 1-based; 0 when sub does not occur
RFind(s, sub) ==
  LET hits == {i \in 1..Len(s) : MatchAt(s, sub, i)}
  IN  IF hits = {} THEN 0 ELSE CHOOSE i \in hits : \A j \in hits : i >= j

\* sub in s
Contains(s, sub) == Find(s, sub) # 0

\* str.split(sep): the pieces between the leftmost non-overlapping occurrences
RECURSIVE Split(_, _)
Split(s, sep) ==
  LET i == Find(s, sep)
  IN  IF i = 0 THEN <<s>>
      ELSE <<SubSeq(s, 1, i - 1)>> \o Split(SubSeq(s, i + Len(sep), Len(s)), sep)

\* sep.join(pieces)
RECURSIVE Join(_, _)
Join(pieces, sep) ==
  IF pieces = <<>> THEN <<>>
  ELSE IF Len(pieces) = 1 THEN pieces[1]
  ELSE pieces[1] \o sep \o Join(Tail(pieces), sep)

(***************************************************************************)
(* The strings of the program and of its inputs.                           *)
(***************************************************************************)
\* 'downloads', the literal of r2_uploader.py:364 and r2_upload_example.py:127
Marker == <<"d", "o", "w", "n", "l", "o", "a", "d", "s">>
\* 'unknown', the default label
Unknown == <<"u", "n", "k", "n", "o", "w", "n">>

S_dy == <<"d", "y">>
S_an == <<"a", "n">>
S_srv == <<"s", "r", "v">>
S_my2 == <<"m", "y">> \o Marker \o <<"2">>
N_mp4 == <<"v", ".", "m", "p", "4">>
N_mkv == <<"a", ".", "M", "K", "V">>
N_txt == <<"b", ".", "t", "x", "t">>

\* the directories the runs are given: relative and equal to the marker,
\* absolute without the marker, relative with the marker inside a longer name,
\* and a "downloads" directory below such a longer name
Roots ==
  { [abs |-> FALSE, segs |-> <<Marker>>],
    [abs |-> TRUE, segs |-> <<S_srv>>],
    [abs |-> FALSE, segs |-> <<S_my2>>],
    [abs |-> FALSE, segs |-> <<S_my2, Marker>>] }

\* the files a directory may hold, each by its components below the directory
RelFiles ==
  { <<S_dy, S_an, N_mp4>>,
    <<Marker, N_mkv>>,
    <<N_txt>> }

\* the directory itself, as a path below the directory
Here == <<>>

Flavours == {"posix", "nt"}

\* os.sep
OsSep(fl) == IF fl = "nt" THEN BSLASH ELSE SLASH

\* the text of the directory argument
DirStr(root, fl) ==
  (IF root.abs THEN <<OsSep(fl)>> ELSE <<>>) \o Join(root.segs, <<OsSep(fl)>>)

\* os.path.join(a, b) for a relative b
PathJoin(a, b, fl) ==
  IF a = <<>> \/ a[Len(a)] = OsSep(fl) \/ (fl = "nt" /\ a[Len(a)] = SLASH)
  THEN a \o b
  ELSE a \o <<OsSep(fl)>> \o b

\* the path os.walk builds for the file rel below the directory
RECURSIVE JoinAll(_, _, _)
JoinAll(a, rel, fl) ==
  IF rel = <<>> THEN a ELSE JoinAll(PathJoin(a, rel[1], fl), Tail(rel), fl)

FilePath(root, rel, fl) == JoinAll(DirStr(root, fl), rel, fl)

\* the components of a path, split at the separators of the flavour
RECURSIVE Pieces(_, _)
Pieces(p, seps) ==
  LET cut == {i \in 1..Len(p) : p[i] \in seps}
  IN  IF cut = {} THEN <<p>>
      ELSE LET i == CHOOSE k \in cut : \A j \in cut : k <= j
           IN  <<SubSeq(p, 1, i - 1)>> \o Pieces(SubSeq(p, i + 1, Len(p)), seps)

\* pathlib: Path(p).parts, for paths without a drive
PathParts(p, fl) ==
  LET seps == IF fl = "nt" THEN {SLASH, BSLASH} ELSE {SLASH}
      raw == Pieces(p, seps)
      kept == SelectSeq(raw, LAMBDA c : c # <<>> /\ c # <<".">>)
  IN  IF p # <<>> /\ p[1] \in seps THEN <<(<<OsSep(fl)>>)>> \o kept ELSE kept

\* pathlib: Path(name).suffix, for a bare file name
PathSuffix(name) ==
  LET i == RFind(name, <<".">>)
  IN  IF 1 < i /\ i < Len(name) THEN SubSeq(name, i, Len(name)) ELSE <<>>

(***************************************************************************)
(* The pure functions of the program.                                      *)
(***************************************************************************)
\* upload_video_to_r2: the object name derived from the local path
ObjectName(file_path) ==
  LET parts == Split(file_path, Marker)
      relative_path ==
        IF Contains(file_path, Marker) /\ Len(parts) > 1
        THEN LStrip(parts[2], {SLASH, BSLASH})
        ELSE file_path
  IN  Replace(relative_path, BSLASH, SLASH)

\* upload_directory: the built-in extension set
DefaultExtensions ==
  { <<".", "m", "p", "4">>, <<".", "m", "k", "v">>, <<".", "f", "l", "v">>,
    <<".", "t", "s">>, <<".", "m", "3", "u", "8">>, <<".", "a", "v", "i">>,
    <<".", "m", "o", "v">>, <<".", "w", "m", "v">> }

\* upload_directory: the extension set in force; format_filter is a string,
\* the empty string standing for both None and '' (both are falsy)
VideoExtensions(format_filter) ==
  IF format_filter # <<>>
  THEN LET fmts == Split(format_filter, <<",">>)
       IN  { <<".">> \o Lower(Strip(fmts[i])) : i \in 1..Len(fmts) }
  ELSE DefaultExtensions

\* upload_directory: whether the walk keeps the file named name
IsVideoFile(name, format_filter) ==
  Lower(PathSuffix(name)) \in VideoExtensions(format_filter)

\* upload_directory: the labels inferred with the second bound check one short
InferLabelsOffByOne(file_path, fl) ==
  LET parts == PathParts(file_path, fl)
      hits == {i \in 1..Len(parts) : parts[i] = Marker}
      idx == IF hits = {} THEN 0 ELSE CHOOSE i \in hits : \A j \in hits : i <= j
  IN  IF Len(parts) >= 3 /\ hits # {} /\ idx + 1 <= Len(parts)
      THEN [platform |-> parts[idx + 1],
            anchor |-> IF idx + 2 <= Len(parts) THEN parts[idx + 2] ELSE Unknown]
      ELSE [platform |-> Unknown, anchor |-> Unknown]

\* upload_directory: the platform and anchor inferred from the path; idx is
\* the 1-based parts.index('downloads'), so idx + 2 < len(parts) of the
\* 0-based source reads idx + 2 <= Len(parts) here
InferLabels(file_path, fl) ==
  LET parts == PathParts(file_path, fl)
      hits == {i \in 1..Len(parts) : parts[i] = Marker}
      idx == IF hits = {} THEN 0 ELSE CHOOSE i \in hits : \A j \in hits : i <= j
  IN  IF Len(parts) >= 3 /\ hits # {} /\ idx + 2 <= Len(parts)
      THEN [platform |-> parts[idx + 1], anchor |-> parts[idx + 2]]
      ELSE [platform |-> Unknown, anchor |-> Unknown]

\* R2Uploader.upload_file: the public URL of an uploaded object
PublicUrl(public_url, object_name) ==
  RStrip(public_url, {SLASH}) \o <<SLASH>> \o object_name

\* dict.get(key, default)
Get(dict, key, default) == IF key \in DOMAIN dict THEN dict[key] ELSE default

\* the strings the program reads as true; "Y" stands for the one-character
\* Chinese word for yes of the source
TrueTokens == { <<"Y">>, <<"y", "e", "s">>, <<"t", "r", "u", "e">>, <<"1">> }
\* the default of the boolean options: the one-character Chinese word for no
NoToken == <<"N">>

\* read_config returned a non-empty dict: `if config:` of main
ConfigTruthy(cfg) == cfg.found /\ DOMAIN cfg.dict # {}

\* the value that stands for no uploader
NoUploader == [made |-> FALSE, public_url |-> <<>>]

\* create_r2_uploader_from_config; client_ok tells whether boto3.client
\* succeeds. An absent public URL and an empty one are both the empty string.
CreateFromConfig(dict, boto3_available, client_ok) ==
  LET enabled == Strip(Get(dict, "r2_upload_enabled", NoToken)) \in TrueTokens
      required == << Strip(Get(dict, "r2_account_id", <<>>)),
                     Strip(Get(dict, "r2_access_key_id", <<>>)),
                     Strip(Get(dict, "r2_secret_access_key", <<>>)),
                     Strip(Get(dict, "r2_bucket_name", <<>>)) >>
  IN  IF ~boto3_available THEN NoUploader
      ELSE IF ~enabled THEN NoUploader
      ELSE IF \E i \in 1..4 : required[i] = <<>> THEN NoUploader
      ELSE IF ~client_ok THEN NoUploader
      ELSE [made |-> TRUE, public_url |-> Strip(Get(dict, "r2_public_url", <<>>))]

\* main: the manual configuration check accepting any one of the four options
ManualCompleteAny(a) == a.account_id \/ a.access_key \/ a.secret_key \/ a.bucket

\* main: all of --account-id, --access-key, --secret-key, --bucket are given
ManualComplete(a) == a.account_id /\ a.access_key /\ a.secret_key /\ a.bucket

(***************************************************************************)
(* The inputs: configuration files, command lines, directory listings.     *)
(***************************************************************************)
T_yes == <<"y", "e", "s">>
T_no == <<"n", "o">>
\* a public URL prefix without and with trailing slashes
Url_plain == <<"h", ":", "/", "c">>
Url_slashes == <<"h", ":", "/", "c", "/", "/">>

\* read_config: the r2_config dict of a config.ini with the R2 section
CfgDict(enabled, bucket, public_url, delete_after, format_filter) ==
  [found |-> TRUE,
   dict |-> [r2_upload_enabled |-> enabled,
             r2_account_id |-> <<"i">>,
             r2_access_key_id |-> <<"k">>,
             r2_secret_access_key |-> <<"s">>,
             r2_bucket_name |-> bucket,
             r2_public_url |-> public_url,
             delete_after_upload |-> delete_after,
             upload_format_filter |-> format_filter]]

\* read_config: no config.ini (None)
CfgMissing == [found |-> FALSE, dict |-> [k \in {} |-> <<>>]]
\* read_config: a config.ini without the R2 section ({})
CfgEmpty == [found |-> TRUE, dict |-> [k \in {} |-> <<>>]]

Configs ==
  { CfgMissing,
    CfgEmpty,
    CfgDict(<<" ">> \o T_yes, <<"b">>, Url_plain, T_yes, <<"t", "x", "t">>),
    CfgDict(T_yes, <<"b">>, <<>>, T_no, <<>>),
    CfgDict(T_no, <<"b">>, <<>>, T_no, <<>>),
    CfgDict(T_yes, <<" ">>, <<>>, T_no, <<>>) }

\* the four manual options, each given or not
ManualChoices ==
  { <<TRUE, TRUE, TRUE, TRUE>>, <<FALSE, TRUE, TRUE, TRUE>>,
    <<TRUE, TRUE, TRUE, FALSE>>, <<FALSE, FALSE, FALSE, FALSE>> }

\* argparse: the parsed command line. --platform and --anchor keep their
\* default 'unknown'; an absent --public-url and an empty one are both <<>>.
MakeArgs(has_path, path, use_config, dir, delete, manual, public_url) ==
  [has_path |-> has_path, path |-> path, config |-> use_config, dir |-> dir,
   delete |-> delete, account_id |-> manual[1], access_key |-> manual[2],
   secret_key |-> manual[3], bucket |-> manual[4], public_url |-> public_url,
   platform |-> Unknown, anchor |-> Unknown]

NoArgs == MakeArgs(FALSE, Here, FALSE, FALSE, FALSE, <<FALSE, FALSE, FALSE, FALSE>>, <<>>)

\* the command lines over the files of a listing
ArgChoices(files) ==
  { MakeArgs(hp, IF hp THEN f ELSE Here, FALSE, d, del, m,
             IF m = <<TRUE, TRUE, TRUE, TRUE>> THEN u ELSE <<>>) :
      hp \in BOOLEAN, f \in {Here} \cup files, d \in BOOLEAN, del \in BOOLEAN,
      m \in ManualChoices, u \in {<<>>, Url_slashes} }
  \cup
  { MakeArgs(hp, IF hp THEN f ELSE Here, TRUE, d, del,
             <<FALSE, FALSE, FALSE, FALSE>>, <<>>) :
      hp \in BOOLEAN, f \in {Here} \cup files, d \in BOOLEAN, del \in BOOLEAN }

Range(q) == {q[i] : i \in 1..Len(q)}

\* the sequences of distinct files, of length n at most, os.walk may yield
RECURSIVE ListingsUpTo(_)
ListingsUpTo(n) ==
  IF n = 0 THEN {<<>>}
  ELSE LET shorter == ListingsUpTo(n - 1)
       IN  shorter \cup
           { Append(q, f) : q \in {r \in shorter : Len(r) = n - 1},
                            f \in RelFiles }
Listings == {q \in ListingsUpTo(MaxFiles) : Cardinality(Range(q)) = Len(q)}

(***************************************************************************)
(* The state.                                                              *)
(***************************************************************************)
VARIABLES
  flavour,          \* the operating system's path flavour
  root,             \* the directory the run is about
  listing,          \* the files below it, in the order os.walk yields them
  dir_exists,       \* whether the directory exists
  BOTO3_AVAILABLE,  \* r2_uploader.py: whether boto3 was importable
  client_ok,        \* whether boto3.client succeeds
  fs,               \* the files that exist now
  env_removals,     \* the files other processes have removed so far
  pc,               \* main: "main", "upload", "loop", "single", "exited"
  exit_status,      \* the exit status of the process, -1 while it runs
  exc,              \* the exception that ended the run, "" if none
  args,             \* main: args
  config,           \* main: what read_config returned
  uploader,         \* main: uploader
  delete_after,     \* main: delete_after
  video_files,      \* upload_directory: video_files
  idx,              \* upload_directory: the position of the for loop
  success_count,    \* upload_directory: success_count
  fail_count,       \* upload_directory: fail_count
  walked,           \* upload_directory got past the walk
  cur,              \* upload_single_file: file_path, as a file of the listing
  labels,           \* upload_single_file: platform and anchor
  pcU,              \* the position of the coroutine handling cur
  result,           \* upload_video_to_r2: result
  workers,          \* the upload_file calls running on executor threads
  futures,          \* the finished executor calls nobody has awaited yet
  bucket,           \* the objects stored in the bucket
  events            \* history: every dispatch, completion and os.remove

vars ==
  << flavour, root, listing, dir_exists, BOTO3_AVAILABLE, client_ok, fs,
     env_removals, pc, exit_status, exc, args, config, uploader, delete_after,
     video_files, idx, success_count, fail_count, walked, cur, labels, pcU,
     result, workers, futures, bucket, events >>

envVars == << flavour, root, listing, dir_exists, BOTO3_AVAILABLE >>
mainVars == << args, config, client_ok, uploader, delete_after >>
dirVars == << video_files, idx, success_count, fail_count, walked >>

NoResult == [none |-> TRUE]
NoLabels == [platform |-> Unknown, anchor |-> Unknown]

\* os.path.exists, os.path.isdir, os.path.isfile of a path of the run
Exists(f) == IF f = Here THEN dir_exists ELSE f \in fs
IsDir(f) == f = Here /\ dir_exists
IsFile(f) == f # Here /\ f \in fs

\* the text of the path of file f
PathOf(f) == FilePath(root, f, flavour)

Init ==
  /\ flavour \in Flavours
  /\ root \in Roots
  /\ listing \in Listings
  /\ dir_exists \in (IF listing = <<>> THEN BOOLEAN ELSE {TRUE})
  /\ BOTO3_AVAILABLE \in BOOLEAN
  /\ client_ok = TRUE
  /\ fs = Range(listing)
  /\ env_removals = 0
  /\ pc = "main"
  /\ exit_status = -1
  /\ exc = ""
  /\ args = NoArgs
  /\ config = CfgMissing
  /\ uploader = NoUploader
  /\ delete_after = FALSE
  /\ video_files = <<>>
  /\ idx = 1
  /\ success_count = 0
  /\ fail_count = 0
  /\ walked = FALSE
  /\ cur = Here
  /\ labels = NoLabels
  /\ pcU = "idle"
  /\ result = NoResult
  /\ workers = {}
  /\ futures = {}
  /\ bucket = {}
  /\ events = <<>>

(***************************************************************************)
(* main, up to the uploader.                                               *)
(***************************************************************************)
\* main: `if not uploader`
UploaderMissing(u) == ~u.made

\* main: sys.exit(1)
Exit1 == [pc |-> "exited", exit_status |-> 1, exc |-> "",
          uploader |-> NoUploader, delete_after |-> FALSE]

\* main, from parse_args to `if not uploader`: where the run stands after it.
\* An exception of R2Uploader() leaves main, is logged by the handler of
\* `except Exception` at the foot of the script, and the script ends normally.
MainPrelude(a, cfg, boto3_available, ok) ==
  IF ~a.has_path THEN Exit1
  ELSE IF a.config
  THEN IF ConfigTruthy(cfg)
       THEN LET u == CreateFromConfig(cfg.dict, boto3_available, ok)
                d == Get(cfg.dict, "delete_after_upload", NoToken) \in TrueTokens
            IN  IF UploaderMissing(u) THEN Exit1
                ELSE [pc |-> "upload", exit_status |-> -1, exc |-> "",
                      uploader |-> u, delete_after |-> (d \/ a.delete)]
       ELSE Exit1
  ELSE IF ~ManualComplete(a) THEN Exit1
  ELSE IF ~boto3_available
  THEN [pc |-> "exited", exit_status |-> 0, exc |-> "ImportError",
        uploader |-> NoUploader, delete_after |-> FALSE]
  ELSE IF ~ok
  THEN [pc |-> "exited", exit_status |-> 0, exc |-> "ClientInitError",
        uploader |-> NoUploader, delete_after |-> FALSE]
  ELSE LET u == [made |-> TRUE, public_url |-> a.public_url]
       IN  IF UploaderMissing(u) THEN Exit1
           ELSE [pc |-> "upload", exit_status |-> -1, exc |-> "",
                 uploader |-> u, delete_after |-> a.delete]

\* the configuration file is read in config mode only, and boto3.client is
\* called only when the run gets as far as constructing the client
ReadsConfig(a) == a.has_path /\ a.config
CallsClient(a, cfg) ==
  /\ a.has_path
  /\ IF a.config
     THEN ConfigTruthy(cfg) /\ CreateFromConfig(cfg.dict, TRUE, TRUE).made
     ELSE ManualComplete(a)

ParseArgs ==
  /\ pc = "main"
  /\ \E a \in ArgChoices(Range(listing)), cfg \in Configs, ok \in BOOLEAN :
       /\ ReadsConfig(a) \/ cfg = CfgMissing
       /\ (CallsClient(a, cfg) /\ BOTO3_AVAILABLE) \/ ok
       /\ LET after == MainPrelude(a, cfg, BOTO3_AVAILABLE, ok)
          IN  /\ args' = a
              /\ config' = cfg
              /\ client_ok' = ok
              /\ pc' = after.pc
              /\ exit_status' = after.exit_status
              /\ exc' = after.exc
              /\ uploader' = after.uploader
              /\ delete_after' = after.delete_after
  /\ UNCHANGED << envVars, fs, env_removals, dirVars, cur, labels, pcU, result,
                  workers, futures, bucket, events >>

(***************************************************************************)
(* main: the upload; upload_directory.                                     *)
(***************************************************************************)
\* main: the format_filter argument of its call of upload_directory. The call
\* passes (uploader, args.path, delete_after) and nothing else, so the
\* parameter keeps its default None, whatever upload_format_filter the
\* configuration holds.
MainFormatFilter(cfg) == <<>>

\* upload_directory: the files the walk keeps, in the order it yields them
WalkVideoFiles(format_filter) ==
  SelectSeq(listing,
            LAMBDA f : f \in fs /\ IsVideoFile(f[Len(f)], format_filter))

StartUpload ==
  /\ pc = "upload"
  /\ IF args.dir
     THEN IF ~IsDir(args.path)
          THEN /\ pc' = "exited"
               /\ exit_status' = 0
               /\ UNCHANGED << dirVars, cur, labels, pcU >>
          ELSE /\ video_files' = WalkVideoFiles(MainFormatFilter(config))
               /\ idx' = 1
               /\ success_count' = 0
               /\ fail_count' = 0
               /\ walked' = TRUE
               /\ pc' = "loop"
               /\ UNCHANGED << exit_status, cur, labels, pcU >>
     ELSE /\ pc' = "single"
          /\ cur' = args.path
          /\ labels' = [platform |-> args.platform, anchor |-> args.anchor]
          /\ pcU' = "usf_exists"
          /\ UNCHANGED << exit_status, dirVars >>
  /\ UNCHANGED << envVars, mainVars, fs, env_removals, exc, result, workers,
                  futures, bucket, events >>

\* upload_directory: the loop starts its next iteration without the await of
\* the previous one having returned
LoopReadyNoAwait == pc = "loop" /\ pcU \in {"idle", "await"}

\* upload_directory: the for loop is at the top of an iteration; the body's
\* `await upload_single_file(...)` has returned
LoopReady == pc = "loop" /\ pcU = "idle"

\* upload_directory: one iteration up to the call of upload_single_file
DirNext ==
  /\ LoopReady
  /\ idx <= Len(video_files)
  /\ cur' = video_files[idx]
  /\ idx' = idx + 1
  /\ labels' = InferLabels(PathOf(video_files[idx]), flavour)
  /\ pcU' = "usf_exists"
  /\ events' = Append(events, [op |-> "attempt", file |-> video_files[idx],
                               key |-> <<>>, labels |-> labels'])
  /\ UNCHANGED << envVars, mainVars, fs, env_removals, pc, exit_status, exc,
                  video_files, success_count, fail_count, walked, result,
                  workers, futures, bucket >>

\* upload_directory: the loop is over; main returns and the process ends
DirDone ==
  /\ LoopReady
  /\ idx > Len(video_files)
  /\ pc' = "exited"
  /\ exit_status' = 0
  /\ UNCHANGED << envVars, mainVars, fs, env_removals, exc, dirVars, cur,
                  labels, pcU, result, workers, futures, bucket, events >>

(***************************************************************************)
(* upload_single_file and upload_video_to_r2.                              *)
(***************************************************************************)
\* upload_single_file returns success to its caller: upload_directory counts
\* it, main drops it and the process ends
Finish(success) ==
  IF pc = "loop"
  THEN /\ success_count' = (IF success THEN success_count + 1 ELSE success_count)
       /\ fail_count' = (IF success THEN fail_count ELSE fail_count + 1)
       /\ pcU' = "idle"
       /\ UNCHANGED << pc, exit_status, video_files, idx, walked >>
  ELSE /\ pc' = "exited"
       /\ exit_status' = 0
       /\ pcU' = "idle"
       /\ UNCHANGED dirVars

\* upload_single_file: the existence check
UsfExists ==
  /\ pc \in {"loop", "single"}
  /\ pcU = "usf_exists"
  /\ IF Exists(cur)
     THEN /\ pcU' = "uv_exists"
          /\ UNCHANGED << pc, exit_status, dirVars >>
     ELSE Finish(FALSE)
  /\ UNCHANGED << envVars, mainVars, fs, env_removals, exc, cur, labels,
                  result, workers, futures, bucket, events >>

\* upload_video_to_r2: the existence check, the object name, the metadata and
\* the dispatch of upload_file to the executor (upload_file_async)
UvExists ==
  /\ pc \in {"loop", "single"}
  /\ pcU = "uv_exists"
  /\ IF ~Exists(cur)
     THEN /\ result' = [success |-> FALSE, error |-> "File not found"]
          /\ pcU' = "usf_result"
          /\ UNCHANGED << workers, events >>
     ELSE /\ workers' = workers \cup
                        { [file |-> cur, stage |-> "exists",
                           object_name |-> ObjectName(PathOf(cur)),
                           metadata |-> labels] }
          /\ events' = Append(events, [op |-> "dispatch", file |-> cur,
                                       key |-> ObjectName(PathOf(cur)),
                                       labels |-> labels])
          /\ pcU' = "await"
          /\ UNCHANGED result
  /\ UNCHANGED << envVars, mainVars, fs, env_removals, pc, exit_status, exc,
                  dirVars, cur, labels, futures, bucket >>

(***************************************************************************)
(* R2Uploader.upload_file, on an executor thread.                          *)
(***************************************************************************)
\* the call w ends: its future holds the value returned or the exception
Complete(w, raised, res) ==
  /\ workers' = workers \ {w}
  /\ futures' = futures \cup {[file |-> w.file, raised |-> raised, result |-> res]}
  /\ events' = Append(events, [op |-> "done", file |-> w.file,
                               key |-> w.object_name, labels |-> w.metadata])

\* the call w moves on to its next step
Advance(w, stage) ==
  /\ workers' = (workers \ {w}) \cup {[w EXCEPT !.stage = stage]}
  /\ UNCHANGED << futures, events >>

\* upload_file: `if not os.path.exists(file_path)`
UfExists ==
  /\ \E w \in workers :
       /\ w.stage = "exists"
       /\ IF ~Exists(w.file)
          THEN Complete(w, FALSE, [success |-> FALSE, error |-> "File not found"])
          ELSE Advance(w, "getsize")
  /\ UNCHANGED << envVars, mainVars, fs, env_removals, pc, exit_status, exc,
                  dirVars, cur, labels, pcU, result, bucket >>

\* upload_file: os.path.getsize(file_path), outside the try block: for a file
\* that is gone it raises FileNotFoundError, which leaves upload_file
UfGetsize ==
  /\ \E w \in workers :
       /\ w.stage = "getsize"
       /\ IF ~Exists(w.file)
          THEN Complete(w, TRUE, [exception |-> "FileNotFoundError"])
          ELSE Advance(w, "transfer")
  /\ UNCHANGED << envVars, mainVars, fs, env_removals, pc, exit_status, exc,
                  dirVars, cur, labels, pcU, result, bucket >>

\* upload_file: the result of a transfer that succeeded. The size and bucket
\* fields of the source's result are left out: nothing reads them.
SuccessResult(object_name) ==
  IF uploader.public_url # <<>>
  THEN [success |-> TRUE, object_name |-> object_name,
        url |-> PublicUrl(uploader.public_url, object_name)]
  ELSE [success |-> TRUE, object_name |-> object_name]

\* upload_file: the try block. s3_client.upload_file stores the object, or
\* raises ClientError (the service refused) or another exception (the local
\* file cannot be read, the connection broke, the client rejects an empty
\* object name); both are caught and returned.
UfTransfer ==
  /\ \E w \in workers, outcome \in {"ok", "ClientError", "Exception"} :
       /\ w.stage = "transfer"
       /\ outcome = "ok" => IsFile(w.file) /\ w.object_name # <<>>
       /\ IF outcome = "ok"
          THEN /\ bucket' = {o \in bucket : o.key # w.object_name} \cup
                            { [key |-> w.object_name, file |-> w.file,
                               metadata |-> w.metadata] }
               /\ Complete(w, FALSE, SuccessResult(w.object_name))
          ELSE /\ UNCHANGED bucket
               /\ Complete(w, FALSE,
                           [success |-> FALSE,
                            error |-> IF outcome = "ClientError"
                                      THEN "Code: Message" ELSE "str(e)",
                            object_name |-> w.object_name])
  /\ UNCHANGED << envVars, mainVars, fs, env_removals, pc, exit_status, exc,
                  dirVars, cur, labels, pcU, result >>

(***************************************************************************)
(* upload_video_to_r2 after the await; upload_single_file's return.        *)
(***************************************************************************)
\* upload_video_to_r2: `await uploader.upload_file_async(...)` returns the
\* future's value, or raises its exception; the exception passes through
\* upload_single_file, upload_directory and main to the handler at the foot
\* of the script, which logs it, and the script ends normally
UvAwait ==
  /\ pc \in {"loop", "single"}
  /\ pcU = "await"
  /\ \E fu \in futures :
       /\ fu.file = cur
       /\ futures' = futures \ {fu}
       /\ IF fu.raised
          THEN /\ pc' = "exited"
               /\ exit_status' = 0
               /\ exc' = fu.result.exception
               /\ pcU' = "idle"
               /\ UNCHANGED result
          ELSE /\ result' = fu.result
               /\ pcU' = "uv_delete"
               /\ UNCHANGED << pc, exit_status, exc >>
  /\ UNCHANGED << envVars, mainVars, fs, env_removals, dirVars, cur, labels,
                  workers, bucket, events >>

\* upload_video_to_r2: the deletion tried whenever it was requested
ShouldDeleteAlways(res, requested) == requested

\* upload_video_to_r2: `if result.get('success') and delete_after_upload`
ShouldDelete(res, requested) == res.success /\ requested

\* result[key] = value
SetItem(res, key, value) ==
  [k \in DOMAIN res \cup {key} |-> IF k = key THEN value ELSE res[k]]

\* upload_video_to_r2: the deletion of the local file. os.remove succeeds only
\* on a file that is there, and may fail on one that is (no permission, the
\* file is open elsewhere); either way the result says which.
UvDelete ==
  /\ pc \in {"loop", "single"}
  /\ pcU = "uv_delete"
  /\ IF ShouldDelete(result, delete_after)
     THEN \E removed \in BOOLEAN :
            /\ removed => IsFile(cur)
            /\ fs' = (IF removed THEN fs \ {cur} ELSE fs)
            /\ result' = SetItem(result, "local_file_deleted", removed)
            /\ events' = Append(events,
                                [op |-> IF removed THEN "removed" ELSE "remove failed",
                                 file |-> cur, key |-> <<>>, labels |-> labels])
     ELSE UNCHANGED << fs, result, events >>
  /\ pcU' = "usf_result"
  /\ UNCHANGED << envVars, mainVars, env_removals, pc, exit_status, exc,
                  dirVars, cur, labels, workers, futures, bucket >>

\* upload_single_file: the result is logged and turned into True or False
UsfResult ==
  /\ pc \in {"loop", "single"}
  /\ pcU = "usf_result"
  /\ Finish(result.success)
  /\ UNCHANGED << envVars, mainVars, fs, env_removals, exc, cur, labels,
                  result, workers, futures, bucket, events >>

(***************************************************************************)
(* The environment: another process removes a local file. A removal before *)
(* main has parsed its arguments is the same as one right after it.        *)
(***************************************************************************)
EnvRemove ==
  /\ pc \notin {"main", "exited"}
  /\ env_removals < MaxEnvRemovals
  /\ \E f \in fs : fs' = fs \ {f}
  /\ env_removals' = env_removals + 1
  /\ UNCHANGED << envVars, mainVars, pc, exit_status, exc, dirVars, cur,
                  labels, pcU, result, workers, futures, bucket, events >>

Next ==
  \/ ParseArgs
  \/ StartUpload
  \/ DirNext
  \/ DirDone
  \/ UsfExists
  \/ UvExists
  \/ UfExists
  \/ UfGetsize
  \/ UfTransfer
  \/ UvAwait
  \/ UvDelete
  \/ UsfResult
  \/ EnvRemove

Spec == Init /\ [][Next]_vars

(***************************************************************************)
(* What the claims speak of.                                               *)
(***************************************************************************)
\* the components of the path of file f, as the path was put together
Components(f) == root.segs \o f

\* the positions of events with one of the operations ops
EventsOf(ops) == {i \in 1..Len(events) : events[i].op \in ops}

\* upload_video_to_r2 has returned its result to upload_single_file
Returned == pcU = "usf_result"

\* the attempts os.remove made on file f
Removals(f) == {i \in EventsOf({"removed", "remove failed"}) : events[i].file = f}

(***************************************************************************)
(* C1. For every existing path that contains the marker segment            *)
(* "downloads", the object key handed to the uploader is the whole path    *)
(* suffix after that segment, joined by forward slashes, also when the     *)
(* marker occurs more than once or inside a longer segment name. (Read in  *)
(* the claim's favour: the suffix after any one of the marker segments.)   *)
(***************************************************************************)
C1_KeyIsSuffixAfterMarker ==
  \A i \in EventsOf({"dispatch"}) :
    LET comps == Components(events[i].file)
        marks == {k \in 1..Len(comps) : comps[k] = Marker}
    IN  (events[i].file # Here /\ marks # {}) =>
          \E k \in marks :
            events[i].key = Join(SubSeq(comps, k + 1, Len(comps)), <<SLASH>>)

(***************************************************************************)
(* C2. Every object key handed to the uploader is a relative path of       *)
(* non-empty segments separated by forward slashes: no backslash, no       *)
(* leading separator, no leading "downloads" marker. (Stated for the paths *)
(* of files only, not for a directory given in place of a file.)           *)
(***************************************************************************)
C2_KeyIsRelativePath ==
  \A i \in EventsOf({"dispatch"}) :
    LET key == events[i].key
        segments == Pieces(key, {SLASH})
    IN  events[i].file # Here =>
        /\ \A k \in 1..Len(key) : key[k] # BSLASH
        /\ key # <<>> => key[1] \notin {SLASH, BSLASH}
        /\ \A k \in 1..Len(segments) : segments[k] # <<>>
        /\ ~MatchAt(key, Marker, 1)

(***************************************************************************)
(* C3. When a directory upload is over, every matched file has been        *)
(* attempted exactly once, in order, whatever happened to the files before *)
(* it, and success_count + fail_count is the number of matched files.      *)
(***************************************************************************)
C3_AllFilesAttemptedAndCounted ==
  (pc = "exited" /\ walked) =>
    LET tried == SelectSeq(events, LAMBDA e : e.op = "attempt")
    IN  /\ Len(tried) = Len(video_files)
        /\ \A i \in 1..Len(tried) : tried[i].file = video_files[i]
        /\ success_count + fail_count = Len(video_files)

(***************************************************************************)
(* C4 as claimed. With delete_after_upload set, when upload_video_to_r2    *)
(* returns: after a successful upload the local file is gone and the       *)
(* result has local_file_deleted = true; after a failed one no deletion    *)
(* was attempted and the result has no local_file_deleted field. (The      *)
(* claim's "the file still exists" is read in its favour as: this call did *)
(* not remove it.)                                                         *)
(***************************************************************************)
C4_AsClaimed ==
  (Returned /\ delete_after) =>
    IF result.success
    THEN /\ ~Exists(cur)
         /\ "local_file_deleted" \in DOMAIN result
         /\ result.local_file_deleted
    ELSE /\ Removals(cur) = {}
         /\ "local_file_deleted" \notin DOMAIN result

(***************************************************************************)
(* C4 amended. With delete_after_upload set, when upload_video_to_r2       *)
(* returns: after a successful upload the deletion was attempted exactly   *)
(* once and local_file_deleted tells whether it succeeded: true, and then  *)
(* the file is gone, or false, the upload still counting as a success;     *)
(* after a failed one no deletion was attempted and the result has no      *)
(* local_file_deleted field.                                               *)
(***************************************************************************)
C4_DeleteAfterUpload ==
  (Returned /\ delete_after) =>
    IF result.success
    THEN /\ Cardinality(Removals(cur)) = 1
         /\ "local_file_deleted" \in DOMAIN result
         /\ \A i \in Removals(cur) :
              result.local_file_deleted = (events[i].op = "removed")
         /\ result.local_file_deleted => ~Exists(cur)
    ELSE /\ Removals(cur) = {}
         /\ "local_file_deleted" \notin DOMAIN result

\* a successful upload came back and its local file was deleted
C4_Witness ==
  /\ Returned /\ delete_after
  /\ result.success /\ result.local_file_deleted
  /\ ~Exists(cur)

(***************************************************************************)
(* C5. upload_file never raises for a per-file problem: every call ends    *)
(* with a result, and a failure result carries a non-empty error text.     *)
(***************************************************************************)
C5_UploadFileNeverRaises ==
  /\ \A fu \in futures :
       /\ ~fu.raised
       /\ ~fu.result.success => fu.result.error # ""
  /\ exc # "FileNotFoundError"

(***************************************************************************)
(* C6. In a directory upload with a format filter in the configuration,    *)
(* the files selected are exactly the files under the directory whose      *)
(* extension, lower-cased, is one of the filter's; without a filter,       *)
(* exactly those with an extension of the default set.                     *)
(***************************************************************************)
C6_FilterDecidesSelection ==
  walked =>
    LET filter == IF args.config
                  THEN Get(config.dict, "upload_format_filter", <<>>)
                  ELSE <<>>
        wanted == IF filter # <<>>
                  THEN {<<".">> \o Lower(Strip(x)) : x \in Range(Split(filter, <<",">>))}
                  ELSE DefaultExtensions
        Matches(f) == Lower(PathSuffix(f[Len(f)])) \in wanted
    IN  /\ \A f \in Range(video_files) : Matches(f)
        /\ \A f \in fs : Matches(f) => f \in Range(video_files)

(***************************************************************************)
(* C7. A successful upload with a public URL prefix configured returns     *)
(* url = prefix, one slash, object key, with no second slash on either     *)
(* side of the join; with no prefix configured the result has no url.      *)
(***************************************************************************)
C7_UrlJoinedByOneSlash ==
  (pcU \in {"uv_delete", "usf_result"} /\ result.success) =>
    IF uploader.public_url = <<>>
    THEN "url" \notin DOMAIN result
    ELSE LET base == RStrip(uploader.public_url, {SLASH})
             n == Len(base)
         IN  /\ "url" \in DOMAIN result
             /\ result.url = base \o <<SLASH>> \o result.object_name
             /\ n > 0 => result.url[n] # SLASH
             /\ Len(result.url) > n + 1 => result.url[n + 2] # SLASH

(***************************************************************************)
(* C8 as claimed. The process ends with exit status 1 exactly when the     *)
(* path argument is missing or manual mode lacks one of account-id,        *)
(* access-key, secret-key, bucket; every other finished run, config-file   *)
(* mode included, ends with exit status 0.                                 *)
(***************************************************************************)
C8_AsClaimed ==
  pc = "exited" =>
    /\ exit_status \in {0, 1}
    /\ exit_status = 1 <=>
         \/ ~args.has_path
         \/ ~args.config /\ ~(args.account_id /\ args.access_key
                              /\ args.secret_key /\ args.bucket)

\* config-file mode yields no uploader: the file or its R2 section is
\* missing, the upload is not enabled, a required value is blank, boto3 is
\* not installed, or the client cannot be constructed
NoUploaderFromConfig ==
  \/ ~config.found
  \/ DOMAIN config.dict = {}
  \/ Strip(config.dict.r2_upload_enabled) \notin TrueTokens
  \/ \E k \in {"r2_account_id", "r2_access_key_id", "r2_secret_access_key",
               "r2_bucket_name"} : Strip(config.dict[k]) = <<>>
  \/ ~BOTO3_AVAILABLE
  \/ ~client_ok

(***************************************************************************)
(* C8 amended. The process ends with exit status 1 exactly when the path   *)
(* argument is missing, or manual mode lacks one of account-id,            *)
(* access-key, secret-key, bucket, or config-file mode yields no uploader; *)
(* every other finished run ends with exit status 0, whatever the uploads  *)
(* did.                                                                    *)
(***************************************************************************)
C8_ExitStatus ==
  pc = "exited" =>
    /\ exit_status \in {0, 1}
    /\ exit_status = 1 <=>
         \/ ~args.has_path
         \/ ~args.config /\ ~(args.account_id /\ args.access_key
                              /\ args.secret_key /\ args.bucket)
         \/ args.config /\ NoUploaderFromConfig

\* a config-file run with a path that ended with exit status 1
C8_Witness ==
  /\ pc = "exited" /\ exit_status = 1
  /\ args.has_path /\ args.config
  /\ config.found /\ DOMAIN config.dict # {}

(***************************************************************************)
(* C9. In a directory upload at most one upload is in flight: the upload   *)
(* running on the executor is the one the loop is awaiting, each file's    *)
(* upload and local deletion are over before the next upload is            *)
(* dispatched, and uploads are dispatched in the order of the walk.        *)
(***************************************************************************)
C9_OneUploadAtATime ==
  LET sent == EventsOf({"dispatch"})
      Position(f) == CHOOSE k \in 1..Len(video_files) : video_files[k] = f
  IN  /\ Cardinality(workers) <= 1
      /\ \A w \in workers : w.file = cur /\ pcU = "await"
      /\ \A i \in sent : \A j \in sent :
           i < j =>
             /\ \E k \in EventsOf({"done"}) :
                  i < k /\ k < j /\ events[k].file = events[i].file
             /\ walked => Position(events[i].file) < Position(events[j].file)
      /\ \A r \in EventsOf({"removed", "remove failed"}) :
           \A j \in sent : j < r => ~(\E i \in sent : j < i /\ i < r)
                                    \/ events[j].file # events[r].file
      /\ \A r \in EventsOf({"removed", "remove failed"}) :
           \E j \in sent :
             /\ j < r /\ events[j].file = events[r].file
             /\ \A i \in sent : ~(j < i /\ i < r)

\* two uploads of one directory run, the first file deleted in between
C9_Witness ==
  /\ walked
  /\ \E i \in EventsOf({"dispatch"}) : \E r \in EventsOf({"removed"}) :
       \E j \in EventsOf({"dispatch"}) :
         i < r /\ r < j /\ events[i].file = events[r].file
  /\ workers # {}

(***************************************************************************)
(* C10. For every matched file of a directory upload: when at least two    *)
(* path components follow the first "downloads" component, platform is the *)
(* component right after it and anchor the one after that; otherwise both  *)
(* are "unknown". Never is one inferred and the other defaulted.           *)
(***************************************************************************)
C10_LabelsInferred ==
  \A i \in EventsOf({"attempt"}) :
    LET comps == Components(events[i].file)
        marks == {k \in 1..Len(comps) : comps[k] = Marker}
        first == CHOOSE k \in marks : \A m \in marks : k <= m
        got == events[i].labels
    IN  /\ IF marks # {} /\ Len(comps) - first >= 2
           THEN got.platform = comps[first + 1] /\ got.anchor = comps[first + 2]
           ELSE got.platform = Unknown /\ got.anchor = Unknown
        /\ (got.platform = Unknown) <=> (got.anchor = Unknown)

\* one run inferred the labels of two files below a "downloads" directory,
\* the second from the components after the first of two markers
C10_Witness ==
  /\ \E i \in EventsOf({"attempt"}) :
       /\ events[i].file = <<S_dy, S_an, N_mp4>>
       /\ events[i].labels = [platform |-> S_dy, anchor |-> S_an]
  /\ \E i \in EventsOf({"attempt"}) :
       /\ events[i].file = <<Marker, N_mkv>>
       /\ events[i].labels = [platform |-> Marker, anchor |-> N_mkv]

(***************************************************************************)
(* C11. Within one directory upload no two matched files derive the same   *)
(* object key, so when the batch has ended every successful upload has an  *)
(* object of its own in the bucket (none was overwritten by a later upload *)
(* of the batch), and every local file the batch deleted still has its     *)
(* object there.                                                           *)
(***************************************************************************)
C11_NoUploadOverwritesAnother ==
  (pc = "exited" /\ walked /\ exc = "") =>
    /\ Cardinality(bucket) = success_count
    /\ \A r \in EventsOf({"removed"}) :
         \E o \in bucket : o.file = events[r].file

====
